---- MODULE Spec2Model ----
(***************************************************************************)
(* unart: a UART emulated on two GPIO lines.                               *)
(*                                                                         *)
(* The receiver (unart_rx.c) is driven by a falling-edge interrupt and an  *)
(* hrtimer callback; the transmitter (unart_tx.c) by unart_tx_write() and  *)
(* an hrtimer callback.  Deferred work delivers received bytes and wakes   *)
(* writers.                                                                *)
(*                                                                         *)
(* Time is kept relative to the monotonic clock: ktime_get() reads 0, a    *)
(* timer's expiry is stored as (expiry - now) and Tick shifts every        *)
(* pending deadline by one nanosecond.  A negative expiry is a timer whose *)
(* callback is late.                                                       *)
(*                                                                         *)
(* An hrtimer is "inactive", "enqueued", "running" (its callback is inside *)
(* the engine's lock) or "returned" (the callback has returned and the     *)
(* hrtimer core has not yet acted on its return value).  hrtimer_active()  *)
(* is true in every state but the first.                                   *)
(*                                                                         *)
(* The two engines share no state but the rx_debug flag and the TX line    *)
(* that the receiver toggles in diagnostic mode, so a behaviour exercises  *)
(* one of them; scn, fixed by Init, says which and with which inputs.      *)
(***************************************************************************)
EXTENDS Integers, Sequences, FiniteSets, TLC

(***************************************************************************)
(* Program constants.                                                      *)
(***************************************************************************)
UNART_DEFAULT_RX_SKEW == 30
UNART_RX_FIFO_SIZE == 32
UNART_TX_FIFO_SIZE == 1024
NSEC_PER_SEC == 1000000000

(***************************************************************************)
(* Bounds of the model.                                                    *)
(***************************************************************************)
\* A timer callback starts at most MaxLate ns after its deadline.
MaxLate == 2
\* Start edges the line carries in one behaviour.
MaxRxFrames == 2
\* Calls of unart_tx_write in one behaviour.
MaxWrites == 2
\* Bytes the transmitter starts to send in one behaviour.
MaxTxFrames == 4
\* Calls of unart_tx_wait_until_sent in one behaviour.
MaxWaits == 1

\* Baud rates the engines are run at: bit periods of 2 ns and 4 ns.
EngineBauds == {500000000, 250000000}
\* Baud rates set_baud_rate is evaluated at (ktime_t is 64 bits wide, so the
\* code's period * skew_percent cannot overflow; from the lowest standard
\* rate, 50, the product also stays within the checker's integers).
AllBauds == {50, 75, 300, 9600, 115200, 1000000, 3000000, 250000000,
             500000000, 999999999, 1000000000}
\* rx-skew property / rx_skew module parameter values before clamping.
RawSkews == 0..104
\* Skew percentages the engines are run with.
EngineSkews == {UNART_DEFAULT_RX_SKEW}
\* Timeouts given to wait_until_sent, in ns.
WaitTimeouts == {0, 3, 25}

Byte == 0..255
Bit01 == {0, 1}

\* "rx":      the receiver on a line that shows the frames of MixedFrames,
\*            with glitch edges, late callbacks and rate changes
\* "rxframe": the receiver on a line that shows any ten levels, one frame
\* "rxfull":  the receiver starting with 31 or 32 bytes not yet delivered,
\*            with edges that follow a frame's last sample at once
\* "tx":      the transmitter given the buffers of MixedBufs, with late
\*            callbacks, rate changes and the diagnostic flag changing
\* "txframe": the transmitter given one byte, any byte
\* "txfull":  the transmitter given buffers longer than its queue
\* "wait":    the transmitter at a bit period of 2 ns, written one byte at
\*            a time, with a caller of wait_until_sent
\* "baud":    set_baud_rate at the rates of AllBauds
\* "rxdown":  the receiver with the device being unbound
\* "txdown":  the transmitter with the device being unbound
RxScenarios == {"rx", "rxframe", "rxfull", "rxdown"}
TxScenarios == {"tx", "txframe", "txfull", "wait", "txdown"}
Scenarios == RxScenarios \cup TxScenarios \cup {"baud"}

(***************************************************************************)
(* Arithmetic helpers.                                                     *)
(***************************************************************************)
Min(a, b) == IF a < b THEN a ELSE b
Max(a, b) == IF a > b THEN a ELSE b

\* clamp(val, lo, hi) of <linux/minmax.h>
Clamp(val, lo, hi) == Min(Max(val, lo), hi)

\* bit i of byte b
BitOf(b, i) == (b \div (2 ^ i)) % 2

\* The 8N1 frame of byte b as it appears on a line, one value per bit cell:
\* start bit, eight data bits least significant first, stop bit.
Frame(b) == <<0>> \o [i \in 1..8 |-> BitOf(b, i - 1)] \o <<1>>

IsPrefix(s, t) == Len(s) <= Len(t) /\ SubSeq(t, 1, Len(s)) = s

\* The frame of every byte
Frames == [b \in Byte |-> Frame(b)]

(***************************************************************************)
(* kfifo, a byte queue of fixed capacity.                                  *)
(***************************************************************************)
\* A variant without the capacity test
KfifoPut_Unbounded(fifo, size, val) == Append(fifo, val)

\* A variant that makes room by discarding the oldest byte
KfifoPut_Overwrite(fifo, size, val) ==
    IF Len(fifo) < size THEN Append(fifo, val) ELSE Append(Tail(fifo), val)

\* kfifo_put(): append one byte unless the fifo is full
KfifoPut(fifo, size, val) == IF Len(fifo) < size THEN Append(fifo, val) ELSE fifo

\* A variant that keeps one slot free
KfifoInCount_Short(fifo, size, buf) == Min(Len(buf), size - Len(fifo) - 1)

\* kfifo_in(): the number of bytes of buf that fit
KfifoInCount(fifo, size, buf) == Min(Len(buf), size - Len(fifo))

\* kfifo_in(): append as many bytes of buf as fit
KfifoIn(fifo, size, buf) == fifo \o SubSeq(buf, 1, KfifoInCount(fifo, size, buf))

\* A variant that takes the byte queued last
KfifoHead_Last(fifo) == fifo[Len(fifo)]

\* kfifo_get(): the byte taken
KfifoHead(fifo) == Head(fifo)

\* A variant that leaves the byte taken in the queue
KfifoTail_Keep(fifo) == fifo

\* kfifo_get(): what stays queued
KfifoTail(fifo) == Tail(fifo)

\* kfifo_is_empty()
KfifoIsEmpty(fifo) == fifo = <<>>

\* A variant that reports every queue as empty
KfifoIsEmptyRawSpinlocked_Always(fifo) == TRUE

\* kfifo_is_empty_rawspinlocked(): kfifo_is_empty() with the lock taken
KfifoIsEmptyRawSpinlocked(fifo) == KfifoIsEmpty(fifo)

\* A variant that lets a second context in
RawSpinLockFree_Always(lock) == TRUE

\* raw_spin_lock_irqsave() returns once the lock is free
RawSpinLockFree(lock) == ~lock

\* A variant that copies one element less
KfifoOut_Short(fifo, n) == SubSeq(fifo, 1, Min(n, Len(fifo)) - 1)

\* kfifo_out(): the first n elements, or all if there are fewer
KfifoOut(fifo, n) == SubSeq(fifo, 1, Min(n, Len(fifo)))

\* kfifo_out(): what stays in the queue
KfifoOutRest(fifo, n) == SubSeq(fifo, Min(n, Len(fifo)) + 1, Len(fifo))

\* kfifo_avail()
KfifoAvail(fifo, size) == size - Len(fifo)

\* A variant that steps by two
PreIncrement_Skip(i) == i + 2

\* ++rx->bit_index, ++tx->bit_index
PreIncrement(i) == i + 1

(***************************************************************************)
(* hrtimer.                                                                *)
(***************************************************************************)
\* hrtimer_active(): enqueued, or its callback is running
HrtimerActive(timer) == timer # "inactive"

\* A variant that re-arms one interval from now
HrtimerForwardNow_FromNow(expires, interval) == interval

\* hrtimer_forward_now(timer, interval) with the clock reading 0: the expiry
\* moves forward by whole intervals until it lies in the future.
HrtimerForwardNow(expires, interval) ==
    LET delta == 0 - expires
    IN  IF delta < 0 THEN expires
        ELSE expires + interval * ((delta \div interval) + 1)

\* A variant that keeps the period the frame started with
RearmInterval_Frame(period, frame_period) ==
    IF frame_period = 0 THEN period ELSE frame_period

\* The interval of a re-arm: rx->period, tx->period as read by the callback
RearmInterval(period, frame_period) == period

(***************************************************************************)
(* Line timing parameters.                                                 *)
(***************************************************************************)
\* rx->period = ns_to_ktime(NSEC_PER_SEC / baudrate)
PeriodOf(baudrate) == NSEC_PER_SEC \div baudrate

\* rx->skew = rx->period * rx->skew_percent / 100
SkewOf(period, skew_percent) == (period * skew_percent) \div 100

\* rx->skew_percent = clamp(rx->skew_percent, 0u, 100u)
ClampSkewPercent(raw) == Clamp(raw, 0, 100)

VARIABLES
    scn,              \* which engine this behaviour exercises, with which inputs
    rx_debug,         \* unart_params.rx_debug
    baud,             \* the rate last given to set_baud_rate
    tx_gpio,          \* level of the output line
    \* struct unart_rx
    rx_bit_index, rx_payload, rx_fifo,
    rx_timer, rx_expires, rx_restart,
    rx_period, rx_skew, rx_skew_percent,
    rx_irq_on,        \* the edge interrupt is enabled
    rx_irq_pc,        \* "idle" | "locked": the edge handler's position
    rx_lock,          \* rx->lock is held
    rx_push_work,     \* push_work is scheduled
    rx_debug_toggle,
    rx_samples,       \* the levels sampled since the last accepted edge
    rx_frames,        \* start edges accepted so far
    pushed,           \* the bytes handed to push_callback, in order
    rx_edge,          \* "none" | "accepted" | "ignored": the last handled edge
    rx_put,           \* the bytes kfifo_put() has stored, in order
    rx_push_pc,       \* "idle" | "running": unart_rx_push_work's position
    rx_push_buf,      \* buf of unart_rx_push_work
    rx_down,          \* "up" | "irq_off" | "cancelled" | "done": unart_rx_cleanup;
                      \* "released": devres has freed the queue and the engine
    rx_frame_period,  \* rx->period when the last edge was accepted, 0 before
    rx_dropped,       \* the bytes of valid frames that were not stored, in order
    \* struct unart_tx
    tx_bit_index, tx_payload, tx_fifo,
    tx_timer, tx_expires, tx_restart,
    tx_period,
    tx_lock,          \* tx->lock is held
    tx_wakeup_work,   \* wakeup_work is scheduled
    tx_wire,          \* the levels the callback drove since the last start bit
    tx_cur,           \* the payload when that start bit was driven
    tx_frames,        \* bytes loaded into tx->payload so far
    tx_sent,          \* the bytes whose stop bit has been driven, in order
    tx_down,          \* "up" | "cancelled" | "blocked" | "done": unart_tx_cleanup;
                      \* "released": devres has freed the queue and the engine
    tx_frame_period,  \* tx->period when the last start bit was driven, 0 before
    \* a caller of unart_tx_write
    wr_pc,            \* "idle" | "queued" | "locked"
    wr_buf,           \* the buffer of the last call
    wr_ret,           \* the return value of the last call
    wr_calls,         \* calls so far
    wr_mark,          \* tx_frames when the last call appended to the queue
    wr_accepted,      \* the first wr_ret bytes of every call's buffer, in order
    wr_queued,        \* the same of the calls that reached kfifo_in()
    wr_woken,         \* the wakeup callback has run since the last call
    \* a caller of unart_tx_wait_until_sent
    wait_pc,          \* "idle" | "blocked" | "woken"
    wait_left,        \* what is left of the timeout
    wait_ret,         \* why the last call returned
    wait_calls        \* calls so far

cfgvars == <<scn, rx_debug, baud>>

rxvars == <<rx_bit_index, rx_payload, rx_fifo, rx_timer, rx_expires, rx_restart,
            rx_period, rx_skew, rx_skew_percent, rx_irq_on, rx_irq_pc, rx_lock,
            rx_push_work, rx_debug_toggle, rx_samples, rx_frames, pushed,
            rx_edge, rx_put, rx_push_pc, rx_push_buf, rx_down,
            rx_frame_period, rx_dropped>>

\* what most handlers of the receiver leave alone
rxaux == <<rx_put, rx_push_pc, rx_push_buf, rx_down, rx_frame_period,
           rx_dropped>>

wrvars == <<wr_pc, wr_buf, wr_ret, wr_calls, wr_mark, wr_woken,
            wr_accepted, wr_queued>>

waitvars == <<wait_pc, wait_left, wait_ret, wait_calls>>

txvars == <<tx_bit_index, tx_payload, tx_fifo, tx_timer, tx_expires, tx_restart,
            tx_period, tx_lock, tx_wakeup_work, tx_wire, tx_cur, tx_frames,
            tx_sent, tx_down, tx_frame_period,
            wrvars, waitvars>>

\* what most handlers of the transmitter leave alone
txaux == <<tx_sent, tx_down, tx_frame_period>>

vars == <<cfgvars, tx_gpio, rxvars, txvars>>

(***************************************************************************)
(* Inputs of a scenario.                                                   *)
(***************************************************************************)
\* Level sequences the line may show to the sampling callback in one frame.
MixedFrames == {Frame(65), Frame(165),
                <<1>>,
                SubSeq(Frame(65), 1, 9) \o <<0>>}

\* May the samples so far be followed by level bit?
SampleAllowed(samples, bit) ==
    \/ scn = "rxframe"
    \/ \E f \in MixedFrames : IsPrefix(Append(samples, bit), f)

\* Queue contents at the start: empty, or what 31 and 32 completed frames
\* leave when deferred delivery has not run yet.
RxBacklog(n) == [i \in 1..n |-> 85]

InitRxFifos ==
    IF scn = "rxfull"
    THEN {RxBacklog(UNART_RX_FIFO_SIZE - 1), RxBacklog(UNART_RX_FIFO_SIZE)}
    ELSE {RxBacklog(0)}

\* Start edges the line carries in this scenario
RxFrameBudget == IF scn = "rxframe" THEN 1 ELSE MaxRxFrames

\* How late a callback may start in this scenario
LateBound == IF scn \in {"rx", "tx"} THEN MaxLate ELSE 0

\* A buffer of n bytes
LongBuf(n) == [i \in 1..n |-> i % 256]

MixedBufs == {<<65>>, <<90, 165>>}

\* Buffers unart_tx_write is called with
WriteBufs ==
    CASE scn = "txframe" -> {<<b>> : b \in Byte}
      [] scn = "txfull"  -> {LongBuf(UNART_TX_FIFO_SIZE + 1), LongBuf(2)}
      [] scn = "wait"    -> {<<65>>}
      [] OTHER           -> MixedBufs

\* Calls of unart_tx_write in this scenario
WriteBudget == IF scn = "txframe" THEN 1 ELSE MaxWrites

Bauds ==
    CASE scn = "baud" -> AllBauds
      [] scn = "wait" -> {500000000}
      [] OTHER        -> EngineBauds

(***************************************************************************)
(* Init: unart_probe() has run unart_rx_setup(), unart_tx_setup() and      *)
(* unart_tty_device_setup(), and the line speed has been set.              *)
(***************************************************************************)
InitRx ==
    /\ rx_bit_index = -1
    /\ rx_payload = 0
    /\ rx_fifo \in InitRxFifos
    /\ rx_timer = "inactive"
    /\ rx_expires = 0
    /\ rx_restart = FALSE
    /\ \E raw \in (IF scn = "baud" THEN RawSkews ELSE EngineSkews) :
           rx_skew_percent = ClampSkewPercent(raw)
    /\ rx_period = PeriodOf(baud)
    /\ rx_skew = SkewOf(rx_period, rx_skew_percent)
    /\ rx_irq_on = FALSE
    /\ rx_irq_pc = "idle"
    /\ rx_lock = FALSE
    /\ rx_push_work = (rx_fifo # <<>>)
    /\ rx_debug_toggle = 0
    /\ rx_samples = <<>>
    /\ rx_frames = 0
    /\ pushed = <<>>
    /\ rx_edge = "none"
    /\ rx_put = rx_fifo
    /\ rx_push_pc = "idle"
    /\ rx_push_buf = <<>>
    /\ rx_down = "up"
    /\ rx_frame_period = 0
    /\ rx_dropped = <<>>

InitTx ==
    /\ tx_bit_index = 0
    /\ tx_payload = 0
    /\ tx_fifo = <<>>
    /\ tx_timer = "inactive"
    /\ tx_expires = 0
    /\ tx_restart = FALSE
    /\ tx_period = PeriodOf(baud)
    /\ tx_lock = FALSE
    /\ tx_wakeup_work = FALSE
    /\ tx_wire = <<>>
    /\ tx_cur = 0
    /\ tx_frames = 0
    /\ tx_sent = <<>>
    /\ tx_down = "up"
    /\ tx_frame_period = 0
    /\ wr_pc = "idle"
    /\ wr_buf = <<>>
    /\ wr_ret = 0
    /\ wr_calls = 0
    /\ wr_mark = 0
    /\ wr_accepted = <<>>
    /\ wr_queued = <<>>
    /\ wr_woken = FALSE
    /\ wait_pc = "idle"
    /\ wait_left = 0
    /\ wait_ret = "none"
    /\ wait_calls = 0

Init ==
    /\ scn \in Scenarios
    /\ rx_debug \in (IF scn \in {"rx", "tx"} THEN BOOLEAN ELSE {FALSE})
    /\ baud \in Bauds
    /\ tx_gpio = 1
    /\ InitRx
    /\ InitTx

(***************************************************************************)
(* RX engine (unart_rx.c).                                                 *)
(***************************************************************************)
\* A variant of the shift that takes the bit in at the low end
RxShift_LowEnd(bit, payload) == ((payload * 2) + bit) % 256

\* (bit << 7) | (rx->payload >> 1), stored in a u8
RxShift(bit, payload) == ((bit * 128) + (payload \div 2)) % 256

\* A variant that accepts either level as a stop bit
RxStopBitValid_Any(bit) == bit \in Bit01

\* if (bit == 1): the stop bit is valid
RxStopBitValid(bit) == bit = 1

\* unart_rx_debug_toggle(): flip the flip-flop and drive the TX line with it
RxDebugToggle ==
    IF rx_debug
    THEN /\ rx_debug_toggle' = 1 - rx_debug_toggle
         /\ tx_gpio' = 1 - rx_debug_toggle
    ELSE UNCHANGED <<rx_debug_toggle, tx_gpio>>

\* unart_rx_activate(): enable_irq()
RxActivate ==
    /\ scn \in RxScenarios
    /\ ~rx_irq_on
    /\ rx_down = "up"
    /\ rx_frames = 0
    /\ rx_irq_on' = TRUE
    /\ UNCHANGED <<cfgvars, tx_gpio, txvars, rxaux,
                   rx_bit_index, rx_payload, rx_fifo, rx_timer, rx_expires,
                   rx_restart, rx_period, rx_skew, rx_skew_percent, rx_irq_pc,
                   rx_lock, rx_push_work, rx_debug_toggle, rx_samples, rx_frames,
                   pushed, rx_edge>>

\* unart_rx_shutdown(): disable_irq() waits for a running handler
RxShutdown ==
    /\ scn \in {"rx", "rxdown"}
    /\ rx_irq_on
    /\ rx_down = "up"
    /\ rx_irq_pc = "idle"
    /\ rx_irq_on' = FALSE
    /\ UNCHANGED <<cfgvars, tx_gpio, txvars, rxaux,
                   rx_bit_index, rx_payload, rx_fifo, rx_timer, rx_expires,
                   rx_restart, rx_period, rx_skew, rx_skew_percent, rx_irq_pc,
                   rx_lock, rx_push_work, rx_debug_toggle, rx_samples, rx_frames,
                   pushed, rx_edge>>

\* A variant of the test that looks at bit_index only
RxEdgeIgnored_IndexOnly(bit_index, timer) == bit_index # -1

\* The edge handler's test: a byte is being read
RxEdgeIgnored(bit_index, timer) == bit_index # -1 \/ HrtimerActive(timer)

\* hrtimer_start(&rx->timer, now + rx->skew, ...), the handler having read
\* the clock as now
RxStartTarget(now, skew) == now + skew

\* unart_rx_irq_handler(), entry: a falling edge raised the interrupt; the
\* handler reads the clock and takes rx->lock.  The line carries
\* RxFrameBudget start edges, glitch edges in scenario "rx", and in scenario
\* "rxfull" edges that arrive while the callback of a frame's last sample
\* returns.
RxIrqEnter ==
    /\ rx_irq_on
    /\ rx_irq_pc = "idle"
    /\ RawSpinLockFree(rx_lock)
    /\ \/ rx_frames < RxFrameBudget /\ ~RxEdgeIgnored(rx_bit_index, rx_timer)
       \/ scn = "rx" /\ (rx_frames < RxFrameBudget \/ rx_bit_index # -1)
       \/ scn = "rxfull" /\ rx_frames < RxFrameBudget
          /\ rx_bit_index = -1 /\ rx_timer = "returned"
    /\ rx_irq_pc' = "locked"
    /\ rx_lock' = TRUE
    /\ UNCHANGED <<cfgvars, tx_gpio, txvars, rxaux,
                   rx_bit_index, rx_payload, rx_fifo, rx_timer, rx_expires,
                   rx_restart, rx_period, rx_skew, rx_skew_percent, rx_irq_on,
                   rx_push_work, rx_debug_toggle, rx_samples, rx_frames, pushed,
                   rx_edge>>

\* unart_rx_irq_handler(), locked section and return
RxIrqBody ==
    /\ rx_irq_pc = "locked"
    /\ rx_irq_pc' = "idle"
    /\ rx_lock' = FALSE
    /\ IF RxEdgeIgnored(rx_bit_index, rx_timer)
       THEN /\ rx_edge' = "ignored"
            /\ UNCHANGED <<rx_payload, rx_timer, rx_expires, rx_debug_toggle,
                           tx_gpio, rx_samples, rx_frames>>
       ELSE /\ rx_edge' = "accepted"
            /\ rx_payload' = 0
            /\ rx_timer' = "enqueued"
            /\ rx_expires' = RxStartTarget(0, rx_skew)
            /\ rx_samples' = <<>>
            /\ rx_frames' = rx_frames + 1
            /\ RxDebugToggle
    /\ rx_frame_period' = IF RxEdgeIgnored(rx_bit_index, rx_timer)
                          THEN rx_frame_period ELSE rx_period
    /\ UNCHANGED <<cfgvars, txvars, rx_put, rx_push_pc, rx_push_buf, rx_down,
                   rx_dropped,
                   rx_bit_index, rx_fifo, rx_restart, rx_period, rx_skew,
                   rx_skew_percent, rx_irq_on, rx_push_work, pushed>>

\* A variant that accepts any start-bit sample
RxStartBitInvalid_Never(bit) == FALSE

\* unart_rx_timer_callback(): the sample taken with bit_index -1 is not a
\* start bit
RxStartBitInvalid(bit) == bit # 0

\* unart_rx_timer_callback(), entry: the timer has expired, the hrtimer core
\* runs the callback, which takes rx->lock.
RxTimerEnter ==
    /\ rx_timer = "enqueued"
    /\ rx_expires <= 0
    /\ RawSpinLockFree(rx_lock)
    /\ rx_timer' = "running"
    /\ rx_lock' = TRUE
    /\ UNCHANGED <<cfgvars, tx_gpio, txvars, rxaux,
                   rx_bit_index, rx_payload, rx_fifo, rx_expires, rx_restart,
                   rx_period, rx_skew, rx_skew_percent, rx_irq_on, rx_irq_pc,
                   rx_push_work, rx_debug_toggle, rx_samples, rx_frames, pushed,
                   rx_edge>>

\* unart_rx_timer_callback(), locked section and return, with the line read
\* as bit.
RxTimerBody(bit) ==
    /\ rx_timer = "running"
    /\ rx_timer' = "returned"
    /\ rx_lock' = FALSE
    /\ rx_samples' = Append(rx_samples, bit)
    /\ RxDebugToggle
    /\ IF rx_bit_index = -1
       THEN IF RxStartBitInvalid(bit)
            THEN /\ rx_restart' = FALSE
                 /\ UNCHANGED <<rx_bit_index, rx_payload, rx_fifo, rx_push_work,
                                rx_expires>>
            ELSE /\ rx_bit_index' = PreIncrement(rx_bit_index)
                 /\ rx_restart' = TRUE
                 /\ rx_expires' = HrtimerForwardNow(rx_expires, RearmInterval(rx_period, rx_frame_period))
                 /\ UNCHANGED <<rx_payload, rx_fifo, rx_push_work>>
       ELSE IF rx_bit_index < 8
       THEN /\ rx_payload' = RxShift(bit, rx_payload)
            /\ rx_bit_index' = PreIncrement(rx_bit_index)
            /\ rx_restart' = TRUE
            /\ rx_expires' = HrtimerForwardNow(rx_expires, RearmInterval(rx_period, rx_frame_period))
            /\ UNCHANGED <<rx_fifo, rx_push_work>>
       ELSE /\ IF RxStopBitValid(bit)
               THEN /\ rx_fifo' = KfifoPut(rx_fifo, UNART_RX_FIFO_SIZE, rx_payload)
                    /\ rx_push_work' = TRUE
               ELSE UNCHANGED <<rx_fifo, rx_push_work>>
            /\ rx_bit_index' = -1
            /\ rx_restart' = FALSE
            /\ UNCHANGED <<rx_payload, rx_expires>>
    /\ rx_put' = rx_put \o SubSeq(rx_fifo', Len(rx_fifo) + 1, Len(rx_fifo'))
    /\ rx_dropped' = IF /\ rx_bit_index = 8
                        /\ RxStopBitValid(bit)
                        /\ Len(rx_fifo') = Len(rx_fifo)
                     THEN Append(rx_dropped, rx_payload)
                     ELSE rx_dropped
    /\ UNCHANGED <<cfgvars, txvars,
                   rx_period, rx_skew, rx_skew_percent, rx_irq_on, rx_irq_pc,
                   rx_frames, pushed, rx_edge, rx_push_pc, rx_push_buf, rx_down,
                   rx_frame_period>>

\* gpiod_get_raw_value(rx->gpio) reads whatever the line shows
RxTimerSample ==
    \E bit \in Bit01 : SampleAllowed(rx_samples, bit) /\ RxTimerBody(bit)

\* The hrtimer core after the callback: HRTIMER_RESTART enqueues the timer
\* again, HRTIMER_NORESTART leaves it inactive.
RxTimerReturn ==
    /\ rx_timer = "returned"
    /\ rx_timer' = IF rx_restart THEN "enqueued" ELSE "inactive"
    /\ rx_expires' = IF rx_restart THEN rx_expires ELSE 0
    /\ rx_restart' = FALSE
    /\ UNCHANGED <<cfgvars, tx_gpio, txvars, rxaux,
                   rx_bit_index, rx_payload, rx_fifo, rx_period, rx_skew,
                   rx_skew_percent, rx_irq_on, rx_irq_pc, rx_lock, rx_push_work,
                   rx_debug_toggle, rx_samples, rx_frames, pushed,
                   rx_edge>>

\* What kfifo_out() may copy from a struct kfifo that has been freed
FreedReads == {<<>>, <<0>>, <<255>>}

\* unart_rx_push_work(), run by the workqueue, which runs one instance of a
\* work item at a time: kfifo_out() of everything queued into buf.  Nothing
\* cancels the work item, so it also runs after devres has freed the queue
\* and struct unart, reading freed memory.
RxPushWork ==
    /\ rx_push_work
    /\ rx_push_pc = "idle"
    /\ rx_push_work' = FALSE
    /\ rx_push_pc' = "running"
    /\ IF rx_down = "released"
       THEN /\ rx_push_buf' \in FreedReads
            /\ rx_fifo' = rx_fifo
       ELSE /\ rx_push_buf' = KfifoOut(rx_fifo, UNART_RX_FIFO_SIZE)
            /\ rx_fifo' = KfifoOutRest(rx_fifo, UNART_RX_FIFO_SIZE)
    /\ UNCHANGED <<cfgvars, tx_gpio, txvars,
                   rx_bit_index, rx_payload, rx_timer, rx_expires, rx_restart,
                   rx_period, rx_skew, rx_skew_percent, rx_irq_on, rx_irq_pc,
                   rx_lock, rx_debug_toggle, rx_samples, rx_frames, rx_edge,
                   pushed, rx_put, rx_down, rx_frame_period,
                   rx_dropped>>

\* unart_rx_push_work(): rx->push_callback(unart, buf, n), and return
RxPushCallback ==
    /\ rx_push_pc = "running"
    /\ rx_push_pc' = "idle"
    /\ pushed' = pushed \o rx_push_buf
    /\ rx_push_buf' = <<>>
    /\ UNCHANGED <<cfgvars, tx_gpio, txvars,
                   rx_bit_index, rx_payload, rx_fifo, rx_timer, rx_expires,
                   rx_restart, rx_period, rx_skew, rx_skew_percent, rx_irq_on,
                   rx_irq_pc, rx_lock, rx_push_work, rx_debug_toggle, rx_samples,
                   rx_frames, rx_edge, rx_put, rx_down, rx_frame_period,
                   rx_dropped>>

\* unart_rx_cleanup(): disable_irq(rx->irq), which waits for a running
\* handler.  enable_irq() and disable_irq() nest, so an unart_rx_activate()
\* or unart_rx_shutdown() made afterwards leaves the interrupt disabled.
RxCleanupDisableIrq ==
    /\ scn = "rxdown"
    /\ rx_down = "up"
    /\ rx_irq_pc = "idle"
    /\ rx_irq_on' = FALSE
    /\ rx_down' = "irq_off"
    /\ UNCHANGED <<cfgvars, tx_gpio, txvars,
                   rx_bit_index, rx_payload, rx_fifo, rx_timer, rx_expires,
                   rx_restart, rx_period, rx_skew, rx_skew_percent, rx_irq_pc,
                   rx_lock, rx_push_work, rx_debug_toggle, rx_samples, rx_frames,
                   pushed, rx_edge, rx_put, rx_push_pc, rx_push_buf,
                   rx_frame_period,
                   rx_dropped>>

\* unart_rx_cleanup(): hrtimer_cancel(&rx->timer), which waits for a running
\* callback and then removes the timer if it is enqueued
RxCleanupCancel ==
    /\ rx_down = "irq_off"
    /\ rx_timer \in {"inactive", "enqueued"}
    /\ rx_timer' = "inactive"
    /\ rx_expires' = 0
    /\ rx_down' = "cancelled"
    /\ UNCHANGED <<cfgvars, tx_gpio, txvars,
                   rx_bit_index, rx_payload, rx_fifo, rx_restart, rx_period,
                   rx_skew, rx_skew_percent, rx_irq_on, rx_irq_pc, rx_lock,
                   rx_push_work, rx_debug_toggle, rx_samples, rx_frames, pushed,
                   rx_edge, rx_put, rx_push_pc, rx_push_buf,
                   rx_frame_period,
                   rx_dropped>>

\* unart_rx_cleanup(): while (hrtimer_active(&rx->timer)) cond_resched();
\* and return
RxCleanupReturn ==
    /\ rx_down = "cancelled"
    /\ ~HrtimerActive(rx_timer)
    /\ rx_down' = "done"
    /\ UNCHANGED <<cfgvars, tx_gpio, txvars,
                   rx_bit_index, rx_payload, rx_fifo, rx_timer, rx_expires,
                   rx_restart, rx_period, rx_skew, rx_skew_percent, rx_irq_on,
                   rx_irq_pc, rx_lock, rx_push_work, rx_debug_toggle, rx_samples,
                   rx_frames, pushed, rx_edge, rx_put, rx_push_pc, rx_push_buf,
                   rx_frame_period,
                   rx_dropped>>

\* devm_kfifo_free() of the RX queue, which devres runs after
\* unart_rx_cleanup(), free_irq() and gpiod_put(); kfifo_free() empties the
\* struct kfifo, and devres frees struct unart next.
RxDevmKfifoFree ==
    /\ rx_down = "done"
    /\ rx_down' = "released"
    /\ rx_fifo' = <<>>
    /\ UNCHANGED <<cfgvars, tx_gpio, txvars,
                   rx_bit_index, rx_payload, rx_timer, rx_expires,
                   rx_restart, rx_period, rx_skew, rx_skew_percent, rx_irq_on,
                   rx_irq_pc, rx_lock, rx_push_work, rx_debug_toggle, rx_samples,
                   rx_frames, pushed, rx_edge, rx_put, rx_push_pc, rx_push_buf,
                   rx_frame_period, rx_dropped>>

\* unart_rx_set_baud_rate()
RxSetBaudRate(baudrate) ==
    /\ rx_period' = PeriodOf(baudrate)
    /\ rx_skew' = SkewOf(PeriodOf(baudrate), rx_skew_percent)

(***************************************************************************)
(* TX engine (unart_tx.c).                                                 *)
(***************************************************************************)
\* tx->payload & 0b1
TxDataBit(payload) == payload % 2

\* A variant that leaves the payload in place
TxShift_None(payload) == payload

\* tx->payload >>= 1
TxShift(payload) == payload \div 2

\* ktime_t target = ktime_get() + tx->period
TxStartTarget(now, period) == now + period

\* A variant without the diagnostic short-circuit
TxWriteDisabled_Never(debug) == FALSE

\* if (unart_params.rx_debug) return count;
TxWriteDisabled(debug) == debug

\* unart_tx_write(), up to the lock: the diagnostic short-circuit, or
\* kfifo_in() of what fits.
TxWriteCall(buf) ==
    /\ scn \in TxScenarios
    /\ wr_pc = "idle"
    /\ tx_down \notin {"done", "released"}
    /\ wr_calls < WriteBudget
    /\ wr_calls' = wr_calls + 1
    /\ wr_buf' = buf
    /\ wr_woken' = FALSE
    /\ IF TxWriteDisabled(rx_debug)
       THEN /\ wr_ret' = Len(buf)
            /\ wr_accepted' = wr_accepted \o buf
            /\ UNCHANGED <<tx_fifo, wr_pc, wr_mark, wr_queued>>
       ELSE /\ wr_ret' = KfifoInCount(tx_fifo, UNART_TX_FIFO_SIZE, buf)
            /\ tx_fifo' = KfifoIn(tx_fifo, UNART_TX_FIFO_SIZE, buf)
            /\ wr_pc' = "queued"
            /\ wr_mark' = tx_frames
            /\ wr_accepted' = wr_accepted
                                 \o SubSeq(buf, 1, KfifoInCount(tx_fifo, UNART_TX_FIFO_SIZE, buf))
            /\ wr_queued' = wr_queued
                               \o SubSeq(buf, 1, KfifoInCount(tx_fifo, UNART_TX_FIFO_SIZE, buf))
    /\ UNCHANGED <<cfgvars, tx_gpio, rxvars, txaux, waitvars,
                   tx_bit_index, tx_payload, tx_timer, tx_expires, tx_restart,
                   tx_period, tx_lock, tx_wakeup_work, tx_wire, tx_cur, tx_frames>>

TxWrite == \E buf \in WriteBufs : TxWriteCall(buf)

\* unart_tx_write(): raw_spin_lock_irqsave_scoped(&tx->lock)
TxWriteLock ==
    /\ wr_pc = "queued"
    /\ RawSpinLockFree(tx_lock)
    /\ wr_pc' = "locked"
    /\ tx_lock' = TRUE
    /\ UNCHANGED <<cfgvars, tx_gpio, rxvars, txaux, waitvars,
                   tx_bit_index, tx_payload, tx_fifo, tx_timer, tx_expires,
                   tx_restart, tx_period, tx_wakeup_work, tx_wire, tx_cur,
                   tx_frames, wr_buf, wr_ret, wr_calls, wr_mark, wr_woken,
                   wr_accepted, wr_queued>>

\* unart_tx_write(), locked section and return
TxWriteBody ==
    /\ wr_pc = "locked"
    /\ wr_pc' = "idle"
    /\ tx_lock' = FALSE
    /\ IF ~HrtimerActive(tx_timer) /\ ~KfifoIsEmpty(tx_fifo)
       THEN /\ tx_payload' = KfifoHead(tx_fifo)
            /\ tx_fifo' = KfifoTail(tx_fifo)
            /\ tx_bit_index' = -1
            /\ tx_timer' = "enqueued"
            /\ tx_expires' = TxStartTarget(0, tx_period)
            /\ tx_frames' = tx_frames + 1
       ELSE UNCHANGED <<tx_payload, tx_fifo, tx_bit_index, tx_timer, tx_expires,
                        tx_frames>>
    /\ UNCHANGED <<cfgvars, tx_gpio, rxvars, txaux, waitvars,
                   tx_restart, tx_period, tx_wakeup_work, tx_wire, tx_cur,
                   wr_buf, wr_ret, wr_calls, wr_mark, wr_woken,
                   wr_accepted, wr_queued>>

\* unart_tx_timer_callback(), entry: the timer has expired and the callback
\* takes tx->lock.  The transmitter starts at most MaxTxFrames bytes.
TxTimerEnter ==
    /\ tx_timer = "enqueued"
    /\ tx_expires <= 0
    /\ RawSpinLockFree(tx_lock)
    /\ tx_bit_index = -1 => tx_frames <= MaxTxFrames
    /\ tx_timer' = "running"
    /\ tx_lock' = TRUE
    /\ UNCHANGED <<cfgvars, tx_gpio, rxvars, txaux, wrvars, waitvars,
                   tx_bit_index, tx_payload, tx_fifo, tx_expires, tx_restart,
                   tx_period, tx_wakeup_work, tx_wire, tx_cur, tx_frames>>

\* unart_tx_timer_callback(), locked section and return
TxTimerBody ==
    /\ tx_timer = "running"
    /\ tx_timer' = "returned"
    /\ tx_lock' = FALSE
    /\ IF tx_bit_index = -1
       THEN /\ tx_gpio' = 0
            /\ tx_bit_index' = 0
            /\ tx_wire' = <<0>>
            /\ tx_cur' = tx_payload
            /\ tx_restart' = TRUE
            /\ tx_expires' = HrtimerForwardNow(tx_expires, RearmInterval(tx_period, tx_frame_period))
            /\ UNCHANGED <<tx_payload, tx_fifo, tx_wakeup_work, tx_frames>>
       ELSE IF tx_bit_index < 8
       THEN /\ tx_gpio' = TxDataBit(tx_payload)
            /\ tx_payload' = TxShift(tx_payload)
            /\ tx_bit_index' = PreIncrement(tx_bit_index)
            /\ tx_wire' = Append(tx_wire, TxDataBit(tx_payload))
            /\ tx_restart' = TRUE
            /\ tx_expires' = HrtimerForwardNow(tx_expires, RearmInterval(tx_period, tx_frame_period))
            /\ UNCHANGED <<tx_fifo, tx_wakeup_work, tx_cur, tx_frames>>
       ELSE /\ tx_gpio' = 1
            /\ tx_bit_index' = -1
            /\ tx_wire' = Append(tx_wire, 1)
            /\ IF KfifoIsEmpty(tx_fifo)
               THEN /\ tx_wakeup_work' = TRUE
                    /\ tx_restart' = FALSE
                    /\ UNCHANGED <<tx_payload, tx_fifo, tx_expires, tx_frames>>
               ELSE /\ tx_payload' = KfifoHead(tx_fifo)
                    /\ tx_fifo' = KfifoTail(tx_fifo)
                    /\ tx_frames' = tx_frames + 1
                    /\ tx_restart' = TRUE
                    /\ tx_expires' = HrtimerForwardNow(tx_expires, RearmInterval(tx_period, tx_frame_period))
                    /\ UNCHANGED tx_wakeup_work
            /\ UNCHANGED tx_cur
    /\ tx_sent' = IF tx_bit_index = 8 THEN Append(tx_sent, tx_cur) ELSE tx_sent
    /\ tx_frame_period' = IF tx_bit_index = -1 THEN tx_period ELSE tx_frame_period
    /\ UNCHANGED <<cfgvars, rxvars, wrvars, waitvars, tx_period, tx_down>>

\* The hrtimer core after the callback
TxTimerReturn ==
    /\ tx_timer = "returned"
    /\ tx_timer' = IF tx_restart THEN "enqueued" ELSE "inactive"
    /\ tx_expires' = IF tx_restart THEN tx_expires ELSE 0
    /\ tx_restart' = FALSE
    /\ UNCHANGED <<cfgvars, tx_gpio, rxvars, txaux, wrvars, waitvars,
                   tx_bit_index, tx_payload, tx_fifo, tx_period, tx_lock,
                   tx_wakeup_work, tx_wire, tx_cur, tx_frames>>

\* unart_tx_wakeup_work(): wake_up_interruptible(&tx->wait_queue) and
\* tx->wakeup_callback(unart).  Nothing cancels the work item; run after
\* devres has freed struct unart, it works on freed memory and may or may
\* not reach a writer.
TxWakeupWork ==
    /\ tx_wakeup_work
    /\ tx_wakeup_work' = FALSE
    /\ wait_pc' = IF wait_pc = "blocked" THEN "woken" ELSE wait_pc
    /\ tx_down' = IF tx_down = "blocked" THEN "cancelled" ELSE tx_down
    /\ wr_woken' \in (IF tx_down = "released" THEN BOOLEAN ELSE {TRUE})
    /\ UNCHANGED <<cfgvars, tx_gpio, rxvars, tx_sent, tx_frame_period,
                   wr_pc, wr_buf, wr_ret, wr_calls, wr_mark,
                   wr_accepted, wr_queued,
                   tx_bit_index, tx_payload, tx_fifo, tx_timer, tx_expires,
                   tx_restart, tx_period, tx_lock, tx_wire, tx_cur, tx_frames,
                   wait_left, wait_ret, wait_calls>>

\* unart_tx_write_room(): kfifo_avail() under tx->lock
TxWriteRoom == KfifoAvail(tx_fifo, UNART_TX_FIFO_SIZE)

\* unart_tx_wait_until_sent(): wait_event_interruptible_timeout() tests the
\* condition, kfifo_is_empty() under tx->lock, before it sleeps, and does not
\* sleep on a timeout of 0.
TxWaitCall(timeout) ==
    /\ scn = "wait"
    /\ wait_pc = "idle"
    /\ wait_calls < MaxWaits
    /\ ~tx_lock
    /\ wait_calls' = wait_calls + 1
    /\ wait_left' = timeout
    /\ IF KfifoIsEmptyRawSpinlocked(tx_fifo)
       THEN wait_ret' = "empty" /\ UNCHANGED wait_pc
       ELSE IF timeout = 0
       THEN wait_ret' = "elapsed" /\ UNCHANGED wait_pc
       ELSE wait_ret' = "none" /\ wait_pc' = "blocked"
    /\ UNCHANGED <<cfgvars, tx_gpio, rxvars, txaux, wrvars,
                   tx_bit_index, tx_payload, tx_fifo, tx_timer, tx_expires,
                   tx_restart, tx_period, tx_lock, tx_wakeup_work, tx_wire,
                   tx_cur, tx_frames>>

TxWait == \E timeout \in WaitTimeouts : TxWaitCall(timeout)

\* The sleeper, woken through the wait queue, tests the condition again
TxWaitRecheck ==
    /\ wait_pc = "woken"
    /\ ~tx_lock
    /\ IF KfifoIsEmptyRawSpinlocked(tx_fifo)
       THEN wait_ret' = "empty" /\ wait_pc' = "idle"
       ELSE IF wait_left = 0
       THEN wait_ret' = "elapsed" /\ wait_pc' = "idle"
       ELSE wait_pc' = "blocked" /\ UNCHANGED wait_ret
    /\ UNCHANGED <<cfgvars, tx_gpio, rxvars, txaux, wrvars,
                   tx_bit_index, tx_payload, tx_fifo, tx_timer, tx_expires,
                   tx_restart, tx_period, tx_lock, tx_wakeup_work, tx_wire,
                   tx_cur, tx_frames, wait_left, wait_calls>>

\* The sleeper's timeout has elapsed
TxWaitTimeout ==
    /\ wait_pc = "blocked"
    /\ wait_left = 0
    /\ ~tx_lock
    /\ wait_pc' = "idle"
    /\ wait_ret' = "elapsed"
    /\ UNCHANGED <<cfgvars, tx_gpio, rxvars, txaux, wrvars,
                   tx_bit_index, tx_payload, tx_fifo, tx_timer, tx_expires,
                   tx_restart, tx_period, tx_lock, tx_wakeup_work, tx_wire,
                   tx_cur, tx_frames, wait_left, wait_calls>>

\* The sleep is interruptible: a signal ends it
TxWaitSignal ==
    /\ wait_pc = "blocked"
    /\ wait_pc' = "idle"
    /\ wait_ret' = "signal"
    /\ UNCHANGED <<cfgvars, tx_gpio, rxvars, txaux, wrvars,
                   tx_bit_index, tx_payload, tx_fifo, tx_timer, tx_expires,
                   tx_restart, tx_period, tx_lock, tx_wakeup_work, tx_wire,
                   tx_cur, tx_frames, wait_left, wait_calls>>

\* unart_tx_cleanup(): hrtimer_cancel(&tx->timer), which waits for a running
\* callback and then removes the timer if it is enqueued.  The tty device is
\* unregistered before, but a tty that is still open is not hung up, so
\* unart_tx_write() can be called until the cleanup has returned.
TxCleanupCancel ==
    /\ scn = "txdown"
    /\ tx_down = "up"
    /\ tx_timer \in {"inactive", "enqueued"}
    /\ tx_timer' = "inactive"
    /\ tx_expires' = 0
    /\ tx_down' = "cancelled"
    /\ UNCHANGED <<cfgvars, tx_gpio, rxvars, wrvars, waitvars,
                   tx_bit_index, tx_payload, tx_fifo,
                   tx_restart, tx_period, tx_lock, tx_wakeup_work, tx_wire,
                   tx_cur, tx_frames, tx_sent, tx_frame_period>>

\* unart_tx_cleanup(): wait_event_interruptible(tx->wait_queue,
\* !hrtimer_active(&tx->timer)) tests its condition, on entry and after each
\* wake_up of the queue; it returns if the condition holds and sleeps if not
TxCleanupWait ==
    /\ tx_down = "cancelled"
    /\ tx_down' = IF ~HrtimerActive(tx_timer) THEN "done" ELSE "blocked"
    /\ UNCHANGED <<cfgvars, tx_gpio, rxvars, wrvars, waitvars,
                   tx_bit_index, tx_payload, tx_fifo, tx_timer, tx_expires,
                   tx_restart, tx_period, tx_lock, tx_wakeup_work, tx_wire,
                   tx_cur, tx_frames, tx_sent, tx_frame_period>>

\* unart_tx_cleanup(): a signal ends the interruptible sleep; the result of
\* wait_event_interruptible() is not looked at
TxCleanupSignal ==
    /\ tx_down = "blocked"
    /\ tx_down' = "done"
    /\ UNCHANGED <<cfgvars, tx_gpio, rxvars, wrvars, waitvars,
                   tx_bit_index, tx_payload, tx_fifo, tx_timer, tx_expires,
                   tx_restart, tx_period, tx_lock, tx_wakeup_work, tx_wire,
                   tx_cur, tx_frames, tx_sent, tx_frame_period>>

\* devm_kfifo_free() of the TX queue, which devres runs after
\* unart_tx_cleanup() and gpiod_put(); kfifo_free() empties the struct kfifo.
TxDevmKfifoFree ==
    /\ tx_down = "done"
    /\ tx_down' = "released"
    /\ tx_fifo' = <<>>
    /\ UNCHANGED <<cfgvars, tx_gpio, rxvars, wrvars, waitvars,
                   tx_bit_index, tx_payload, tx_timer, tx_expires,
                   tx_restart, tx_period, tx_lock, tx_wakeup_work, tx_wire,
                   tx_cur, tx_frames, tx_sent, tx_frame_period>>

\* unart_tx_set_baud_rate()
TxSetBaudRate(baudrate) ==
    tx_period' = PeriodOf(baudrate)

(***************************************************************************)
(* The tty layer and the module parameter.                                 *)
(***************************************************************************)
\* unart_tty_set_termios(): both engines are given the new rate
SetTermios ==
    /\ scn \in {"rx", "tx", "baud"}
    /\ \E baudrate \in Bauds :
          /\ baudrate # baud
          /\ baud' = baudrate
          /\ RxSetBaudRate(baudrate)
          /\ TxSetBaudRate(baudrate)
    /\ UNCHANGED <<scn, rx_debug, tx_gpio, wrvars, waitvars,
                   rx_bit_index, rx_payload, rx_fifo, rx_timer, rx_expires,
                   rx_restart, rx_skew_percent, rx_irq_on, rx_irq_pc, rx_lock,
                   rx_push_work, rx_debug_toggle, rx_samples, rx_frames, pushed,
                   rx_edge, rxaux, txaux,
                   tx_bit_index, tx_payload, tx_fifo, tx_timer, tx_expires,
                   tx_restart, tx_lock, tx_wakeup_work, tx_wire, tx_cur,
                   tx_frames>>

\* rx_debug is a writable module parameter
SetRxDebug ==
    /\ scn \in {"rx", "tx"}
    /\ rx_debug' = ~rx_debug
    /\ UNCHANGED <<scn, baud, tx_gpio, rxvars, txvars>>

(***************************************************************************)
(* Time.  One nanosecond passes while no handler is inside a locked        *)
(* section or between a callback's return and the timer core's reaction;   *)
(* a pending callback starts at most LateBound ns late, and an elapsed     *)
(* timeout is acted on before more time passes.                            *)
(***************************************************************************)
Tick ==
    /\ ~rx_lock /\ ~tx_lock
    /\ rx_timer \in {"inactive", "enqueued"}
    /\ tx_timer \in {"inactive", "enqueued"}
    /\ \/ rx_timer = "enqueued"
       \/ tx_timer = "enqueued"
       \/ wait_pc # "idle"
    /\ rx_timer = "enqueued" => rx_expires > 0 - LateBound
    /\ tx_timer = "enqueued" => tx_expires > 0 - LateBound
    /\ wait_pc # "idle" => wait_left > 0
    /\ rx_expires' = IF rx_timer = "enqueued" THEN rx_expires - 1 ELSE rx_expires
    /\ tx_expires' = IF tx_timer = "enqueued" THEN tx_expires - 1 ELSE tx_expires
    /\ wait_left' = IF wait_pc # "idle" THEN wait_left - 1 ELSE wait_left
    /\ UNCHANGED <<cfgvars, tx_gpio, wrvars,
                   rx_bit_index, rx_payload, rx_fifo, rx_timer, rx_restart,
                   rx_period, rx_skew, rx_skew_percent, rx_irq_on, rx_irq_pc,
                   rx_lock, rx_push_work, rx_debug_toggle, rx_samples, rx_frames,
                   pushed, rx_edge, rxaux, txaux,
                   tx_bit_index, tx_payload, tx_fifo, tx_timer, tx_restart,
                   tx_period, tx_lock, tx_wakeup_work, tx_wire, tx_cur, tx_frames,
                   wait_pc, wait_ret, wait_calls>>

Next ==
    \/ RxActivate
    \/ RxShutdown
    \/ RxIrqEnter
    \/ RxIrqBody
    \/ RxTimerEnter
    \/ RxTimerSample
    \/ RxTimerReturn
    \/ RxPushWork
    \/ RxPushCallback
    \/ RxCleanupDisableIrq
    \/ RxCleanupCancel
    \/ RxCleanupReturn
    \/ TxCleanupCancel
    \/ TxCleanupWait
    \/ TxCleanupSignal
    \/ RxDevmKfifoFree
    \/ TxDevmKfifoFree
    \/ TxWrite
    \/ TxWriteLock
    \/ TxWriteBody
    \/ TxTimerEnter
    \/ TxTimerBody
    \/ TxTimerReturn
    \/ TxWakeupWork
    \/ TxWait
    \/ TxWaitRecheck
    \/ TxWaitTimeout
    \/ TxWaitSignal
    \/ SetTermios
    \/ SetRxDebug
    \/ Tick

Spec == Init /\ [][Next]_vars

(***************************************************************************)
(* Properties.                                                             *)
(***************************************************************************)
\* C1 (RX frame reconstruction): for every byte b, when the samples the
\* timer callback has taken since the accepted edge are 0, then the eight
\* bits of b least significant first, then 1, the callbacks that took the
\* first nine samples put nothing on the RX queue and the callback that took
\* the tenth puts exactly the byte b at its end and schedules delivery.  The
\* queue has room for the byte: a frame that completes on a full queue is
\* the overflow case, which drops the byte.
C1_RxFrameReconstruction ==
    [][(rx_timer = "running" /\ rx_timer' = "returned"
        /\ Len(rx_fifo) < UNART_RX_FIFO_SIZE)
       => \A b \in Byte :
             IsPrefix(rx_samples', Frames[b])
             => IF Len(rx_samples') = 10
                THEN rx_fifo' = Append(rx_fifo, b) /\ rx_push_work'
                ELSE rx_fifo' = rx_fifo]_vars

\* C1 witness: the frame of 65 (01000001, not a palindrome) has been sampled
\* and 65 is the one byte on the queue.
C1_Witness ==
    /\ rx_samples = Frame(65)
    /\ rx_fifo = <<65>>
    /\ rx_bit_index = -1
    /\ rx_edge = "accepted"

\* C2 (TX frame emission): the locked section of unart_tx_write, finding the
\* timer inactive and the one byte b of the call alone in the queue, loads b,
\* sets bit_index to -1 and arms the timer for the current time plus one
\* period.  On an engine that has been given that one byte only, the timer
\* callbacks drive one level each: 0, then bit 0 to bit 7 of b, then 1, the
\* line holding the level last driven; each of the first nine re-arms the
\* timer one period after its deadline (the callback having started less
\* than one period late), and the tenth does not re-arm it.
C2_TxFrameEmission ==
    [][/\ (wr_pc = "locked" /\ wr_pc' = "idle" /\ tx_timer = "inactive"
           /\ Len(wr_buf) = 1 /\ tx_fifo = wr_buf)
          => /\ tx_payload' = wr_buf[1]
             /\ tx_bit_index' = -1
             /\ tx_fifo' = <<>>
             /\ tx_timer' = "enqueued"
             /\ tx_expires' = 0 + tx_period
       /\ (wr_calls' = 1 /\ Len(wr_buf') = 1 /\ tx_frames' = 1)
          => /\ IsPrefix(tx_wire', Frame(wr_buf'[1]))
             /\ tx_wire' # <<>> => tx_gpio' = tx_wire'[Len(tx_wire')]
             /\ (tx_timer = "running" /\ tx_timer' = "returned")
                => /\ Len(tx_wire') = Len(tx_wire) + 1
                   /\ IF Len(tx_wire') < 10
                      THEN /\ tx_restart'
                           /\ 0 - tx_expires < tx_period
                              => tx_expires' = tx_expires + tx_period
                      ELSE ~tx_restart' /\ tx_bit_index' = -1
             /\ (tx_timer = "returned" /\ tx_timer' # "returned")
                => tx_timer' = IF Len(tx_wire) < 10 THEN "enqueued"
                                                   ELSE "inactive"]_vars

\* C2 witness: the byte 65 was written to the fresh engine, its ten levels
\* have been driven and the timer has stopped.
C2_Witness ==
    /\ wr_calls = 1
    /\ wr_buf = <<65>>
    /\ tx_frames = 1
    /\ tx_wire = Frame(65)
    /\ tx_timer = "inactive"
    /\ tx_gpio = 1

\* C3 (framing errors deliver nothing): a timer callback that samples 1
\* while rx bit_index is -1 (start bit), or 0 while rx bit_index is 8 (stop
\* bit), leaves the RX queue as it was and schedules no delivery, leaves
\* bit_index at -1 and does not re-arm the timer, whatever payload the data
\* bits have built; the timer is inactive once the callback has returned.
C3_FramingErrorsDeliverNothing ==
    [][/\ (rx_timer = "running" /\ rx_timer' = "returned"
           /\ \/ rx_bit_index = -1 /\ rx_samples' = Append(rx_samples, 1)
              \/ rx_bit_index = 8 /\ rx_samples' = Append(rx_samples, 0))
          => /\ rx_fifo' = rx_fifo
             /\ rx_push_work' = rx_push_work
             /\ pushed' = pushed
             /\ rx_bit_index' = -1
             /\ ~rx_restart'
       /\ (rx_timer = "returned" /\ ~rx_restart /\ rx_timer' # "returned")
          => rx_timer' = "inactive" /\ rx_bit_index' = -1]_vars

\* C3 witness: a frame with the data bits of 65 and a stop-bit sample of 0
\* has ended; nothing was queued or delivered and the engine is idle.
C3_Witness ==
    /\ rx_samples = SubSeq(Frame(65), 1, 9) \o <<0>>
    /\ rx_payload = 65
    /\ rx_fifo = <<>>
    /\ pushed = <<>>
    /\ ~rx_push_work
    /\ rx_bit_index = -1
    /\ rx_timer = "inactive"

\* C4 as stated (truncated write): a write of N bytes to a queue with free
\* capacity F < N returns F, and the queue holds 1024 bytes when the call
\* returns.
C4_AsStated ==
    [][/\ (wr_pc = "idle" /\ wr_pc' = "queued"
           /\ Len(wr_buf') > TxWriteRoom)
          => wr_ret' = TxWriteRoom
       /\ (wr_pc = "locked" /\ wr_pc' = "idle" /\ wr_ret < Len(wr_buf))
          => Len(tx_fifo') = UNART_TX_FIFO_SIZE]_vars

\* C4 (truncated write, amended): a write of N bytes to a queue with free
\* capacity F < N returns F without blocking or failing and the queue holds
\* 1024 bytes right after the append.  The locked section of the same call
\* takes one byte out again when it finds the timer inactive, and the timer
\* callback may have taken bytes out in between: when the call returns the
\* queue holds 1024 bytes less the bytes loaded into the transmitter since
\* the append.
C4_TruncatedWrite ==
    [][/\ (wr_pc = "idle" /\ wr_calls' = wr_calls + 1 /\ ~rx_debug
           /\ Len(wr_buf') > TxWriteRoom)
          => /\ wr_ret' = TxWriteRoom
             /\ wr_ret' >= 0
             /\ Len(tx_fifo') = UNART_TX_FIFO_SIZE
             /\ tx_fifo' = tx_fifo \o SubSeq(wr_buf', 1, wr_ret')
             /\ wr_pc' = "queued"
       /\ (wr_pc = "locked" /\ wr_pc' = "idle" /\ wr_ret < Len(wr_buf))
          => /\ Len(tx_fifo') = UNART_TX_FIFO_SIZE - (tx_frames' - wr_mark)
             /\ tx_frames' - tx_frames = IF tx_timer = "inactive" THEN 1 ELSE 0
             /\ ~tx_lock']_vars

\* C4 witness: 1025 bytes were written to the empty, idle engine; the call
\* returned 1024 and left 1023 bytes queued, the first being sent.
C4_Witness ==
    /\ wr_pc = "idle"
    /\ wr_calls = 1
    /\ Len(wr_buf) = UNART_TX_FIFO_SIZE + 1
    /\ wr_ret = UNART_TX_FIFO_SIZE
    /\ Len(tx_fifo) = UNART_TX_FIFO_SIZE - 1
    /\ tx_payload = wr_buf[1]
    /\ tx_timer = "enqueued"

\* C5 (bounded queues): the TX queue never holds more than 1024 bytes and
\* the RX queue never more than 32.  A write stores the longest prefix of
\* its buffer that fits and goes on to its locked section; a frame that
\* completes with a valid stop bit stores its byte if the RX queue has room
\* and leaves the queue as it is otherwise, the callback returning with the
\* engine idle in both cases.
C5_BoundedQueues ==
    [][/\ Len(tx_fifo) <= UNART_TX_FIFO_SIZE /\ Len(tx_fifo') <= UNART_TX_FIFO_SIZE
       /\ Len(rx_fifo) <= UNART_RX_FIFO_SIZE /\ Len(rx_fifo') <= UNART_RX_FIFO_SIZE
       /\ (wr_pc = "idle" /\ wr_calls' = wr_calls + 1 /\ ~rx_debug)
          => /\ wr_pc' = "queued"
             /\ Len(tx_fifo') = IF Len(tx_fifo) + Len(wr_buf') <= UNART_TX_FIFO_SIZE
                                THEN Len(tx_fifo) + Len(wr_buf')
                                ELSE UNART_TX_FIFO_SIZE
             /\ tx_fifo' = tx_fifo \o SubSeq(wr_buf', 1, Len(tx_fifo') - Len(tx_fifo))
       /\ (rx_timer = "running" /\ rx_timer' = "returned" /\ rx_bit_index = 8
           /\ rx_samples' = Append(rx_samples, 1))
          => /\ rx_fifo' = IF Len(rx_fifo) < UNART_RX_FIFO_SIZE
                           THEN Append(rx_fifo, rx_payload)
                           ELSE rx_fifo
             /\ rx_bit_index' = -1
             /\ ~rx_lock']_vars

\* C5 witness: the frame of 65 completed while 32 bytes were waiting for
\* delivery; the queue still holds those 32 bytes.
C5_Witness ==
    /\ rx_samples = Frame(65)
    /\ rx_payload = 65
    /\ rx_bit_index = -1
    /\ rx_fifo = RxBacklog(UNART_RX_FIFO_SIZE)
    /\ pushed = <<>>
    /\ rx_frames = 1

\* C6 (diagnostic-mode write): a call of unart_tx_write made while rx_debug
\* is set returns the count it was given at once and leaves the TX queue,
\* tx bit_index, tx payload, the TX timer with its deadline, and the level
\* of the output line unchanged.
C6_DiagnosticModeWrite ==
    [][(wr_pc = "idle" /\ wr_calls' = wr_calls + 1 /\ rx_debug)
       => /\ wr_ret' = Len(wr_buf')
          /\ wr_pc' = "idle"
          /\ tx_fifo' = tx_fifo
          /\ tx_bit_index' = tx_bit_index
          /\ tx_payload' = tx_payload
          /\ tx_timer' = tx_timer
          /\ tx_expires' = tx_expires
          /\ tx_lock' = tx_lock
          /\ tx_gpio' = tx_gpio]_vars

\* C6 witness: with rx_debug set, two bytes were written while the one byte
\* of the first call was on the line; the call returned 2, the queue is
\* still empty and the frame goes on.
C6_Witness ==
    /\ rx_debug
    /\ wr_calls = 2
    /\ wr_pc = "idle"
    /\ wr_buf = <<90, 165>>
    /\ wr_ret = 2
    /\ tx_fifo = <<>>
    /\ tx_frames = 1
    /\ tx_timer = "enqueued"
    /\ tx_bit_index = 3

\* C7 as stated (wait_until_sent response): once the TX queue is empty, a
\* caller blocked in unart_tx_wait_until_sent returns before its timeout
\* elapses: the timeout does not run out on a caller that is blocked on an
\* empty queue with no wakeup on its way; and a caller that returns for the
\* timeout returns when it has elapsed.
C7_AsStated ==
    [][/\ (wait_pc = "blocked" /\ tx_fifo = <<>> /\ ~tx_wakeup_work)
          => (wait_left' > 0 \/ wait_pc' # "blocked")
       /\ (wait_pc # "idle" /\ wait_pc' = "idle" /\ wait_ret' = "elapsed")
          => wait_left = 0]_vars

\* C7 (wait_until_sent response, amended): a call returns at once when the
\* queue is empty or the timeout is 0, and blocks otherwise.  A blocked
\* caller is woken by the deferred wakeup work only, which only the stop-bit
\* callback that finds the queue empty schedules; woken, it returns if the
\* queue is empty and sleeps on if it is not.  Apart from that it returns
\* when the timeout has elapsed, or on a signal.  The last byte leaves the
\* queue ten bit periods before that stop-bit callback, so the queue can be
\* empty, and the timeout can elapse, with the caller still blocked.
C7_WaitUntilSent ==
    [][/\ (wait_pc = "idle" /\ wait_calls' = wait_calls + 1)
          => IF tx_fifo = <<>>
             THEN wait_pc' = "idle" /\ wait_ret' = "empty"
             ELSE IF wait_left' = 0
             THEN wait_pc' = "idle" /\ wait_ret' = "elapsed"
             ELSE wait_pc' = "blocked"
       /\ (wait_pc = "blocked" /\ wait_pc' = "woken")
          => tx_wakeup_work /\ ~tx_wakeup_work'
       /\ (~tx_wakeup_work /\ tx_wakeup_work')
          => /\ tx_timer = "running" /\ tx_timer' = "returned"
             /\ tx_bit_index = 8
             /\ tx_fifo = <<>>
             /\ ~tx_restart'
       /\ (wait_pc = "woken" /\ wait_pc' = "idle")
          => \/ wait_ret' = "empty" /\ tx_fifo = <<>>
             \/ wait_ret' = "elapsed" /\ wait_left = 0
       /\ (wait_pc = "woken" /\ wait_pc' = "blocked")
          => tx_fifo # <<>> /\ wait_left > 0
       /\ (wait_pc = "blocked" /\ wait_pc' = "idle")
          => \/ wait_ret' = "elapsed" /\ wait_left = 0
             \/ wait_ret' = "signal"
       /\ wait_left' >= 0]_vars

\* C7 witness: a caller that had blocked was woken by the wakeup work, found
\* the queue empty and returned with part of its timeout left.
C7_Witness ==
    /\ wait_calls = 1
    /\ wait_pc = "idle"
    /\ wait_ret = "empty"
    /\ wait_left > 3
    /\ wait_left < 25
    /\ tx_fifo = <<>>
    /\ tx_timer = "inactive"

\* C8 (timing parameters): at every baud rate and every skew percentage in
\* 0..100 the period is 1000000000 / baud by integer division in both
\* engines and the skew satisfies 0 <= skew < period; at 9600 baud and 30
\* percent the period is 104166 ns and the skew 31249 ns.
C8_TimingParameters ==
    /\ rx_period = NSEC_PER_SEC \div baud
    /\ tx_period = NSEC_PER_SEC \div baud
    /\ rx_skew_percent \in 0..100
    /\ (baud = 9600 /\ rx_skew_percent = UNART_DEFAULT_RX_SKEW)
       => (rx_period = 104166 /\ rx_skew = 31249)
    /\ 0 <= rx_skew
    /\ rx_skew < rx_period

\* C9 (back-to-back transmission): the callback that drives a stop bit while
\* the TX queue holds a byte drives 1, loads the head of the queue into
\* payload, sets bit_index to -1 and re-arms the timer, one period after its
\* deadline (the callback having started less than one period late), and
\* the timer core enqueues the timer again with that deadline.  The callback
\* that runs with bit_index -1, the next one, drives 0 for the byte loaded.
\* So after 90 and 165 were written in one call, the levels driven are the
\* frame of 90 followed at once by the frame of 165 (the timer not having
\* been cancelled by unart_tx_cleanup).
C9_BackToBack ==
    [][/\ (tx_timer = "running" /\ tx_timer' = "returned" /\ tx_bit_index = 8
           /\ tx_fifo # <<>>)
          => /\ tx_gpio' = 1
             /\ tx_payload' = Head(tx_fifo)
             /\ tx_fifo' = Tail(tx_fifo)
             /\ tx_bit_index' = -1
             /\ tx_restart'
             /\ tx_wakeup_work' = tx_wakeup_work
             /\ 0 - tx_expires < tx_period => tx_expires' = tx_expires + tx_period
       /\ (tx_timer = "returned" /\ tx_restart /\ tx_timer' # "returned")
          => tx_timer' = "enqueued" /\ tx_expires' = tx_expires
       /\ (tx_timer = "running" /\ tx_timer' = "returned" /\ tx_bit_index = -1)
          => /\ tx_gpio' = 0
             /\ tx_wire' = <<0>>
             /\ tx_cur' = tx_payload
             /\ tx_payload' = tx_payload
             /\ tx_bit_index' = 0
       /\ (wr_calls' = 1 /\ wr_buf' = <<90, 165>> /\ tx_frames' = 2
           /\ tx_down' = "up")
          => \/ /\ tx_wire' = Frame(90)
                /\ tx_payload' = 165
                /\ tx_bit_index' = -1
                /\ tx_timer' \in {"returned", "enqueued", "running"}
             \/ /\ IsPrefix(tx_wire', Frame(165))
                /\ tx_cur' = 165]_vars

\* C9 witness: 90 and 165 were written in one call; the stop bit of 90 has
\* been driven and the next callback has driven the start bit of 165.
C9_Witness ==
    /\ wr_calls = 1
    /\ wr_buf = <<90, 165>>
    /\ tx_frames = 2
    /\ tx_cur = 165
    /\ tx_wire = <<0>>
    /\ tx_gpio = 0
    /\ tx_bit_index = 0
    /\ tx_fifo = <<>>

\* C10 (glitch rejection): from the edge that armed the timer to the sample
\* that ends the frame, rx bit_index is not -1 or the RX timer is active
\* (until unart_rx_cleanup cancels the timer);
\* and an edge handled while that is so leaves rx payload, rx bit_index,
\* the timer and its deadline, the queue and the samples taken unchanged.
C10_GlitchRejection ==
    [][/\ (rx_frames' > 0
           /\ rx_down' \in {"up", "irq_off"}
           /\ \/ rx_samples' = <<>>
              \/ rx_samples'[1] = 0 /\ Len(rx_samples') < 10)
          => (rx_bit_index' # -1 \/ rx_timer' # "inactive")
       /\ (rx_irq_pc = "locked" /\ rx_irq_pc' = "idle"
           /\ (rx_bit_index # -1 \/ rx_timer # "inactive"))
          => /\ rx_edge' = "ignored"
             /\ rx_payload' = rx_payload
             /\ rx_bit_index' = rx_bit_index
             /\ rx_timer' = rx_timer
             /\ rx_expires' = rx_expires
             /\ rx_restart' = rx_restart
             /\ rx_fifo' = rx_fifo
             /\ rx_samples' = rx_samples
             /\ rx_frames' = rx_frames
             /\ ~rx_lock']_vars

\* C10 witness: an edge was handled and ignored after the start bit and
\* three data bits of 65 had been sampled; the payload built so far and the
\* armed timer are as they were.
C10_Witness ==
    /\ rx_edge = "ignored"
    /\ rx_irq_pc = "idle"
    /\ rx_samples = SubSeq(Frame(65), 1, 4)
    /\ rx_bit_index = 3
    /\ rx_payload = 32
    /\ rx_timer = "enqueued"
    /\ rx_expires > 0


(***************************************************************************)
(* C11.  TX timer/queue equivalence.                                       *)
(***************************************************************************)

\* a byte has been loaded into tx->payload and its stop bit is still to come
TxMidTransmission == Len(tx_sent) < tx_frames

\* C11: whenever tx->lock is free the TX timer is active if and only if a
\* byte is mid-transmission or queued and not yet started.  Stated for an
\* engine that is not being torn down, and outside the two short windows in
\* which it cannot be meant to hold (a write between its kfifo_in() and its
\* locked section, the timer core between the callback's return and its own
\* bookkeeping), it still fails: a write that lands in the second window
\* leaves its bytes queued behind a timer that is about to become inactive.
C11_TimerQueueEquivalence ==
    (~tx_lock /\ wr_pc = "idle" /\ tx_timer # "returned" /\ tx_down = "up")
        => (HrtimerActive(tx_timer) <=> (TxMidTransmission \/ tx_fifo # <<>>))


(***************************************************************************)
(* C12.  RX timer/frame equivalence.                                       *)
(***************************************************************************)

\* The sample that ends the frame of the last accepted edge has been taken:
\* the first sample if it was not a start bit, the tenth sample otherwise
RxFrameEnded ==
    rx_samples # <<>> /\ (rx_samples[1] # 0 \/ Len(rx_samples) = 10)

\* The timer is enqueued, or its callback is executing or has asked for a
\* restart
RxTimerArmed ==
    rx_timer \in {"enqueued", "running"} \/ (rx_timer = "returned" /\ rx_restart)

\* C12 as stated: the RX timer is active if and only if a start edge has been
\* accepted and the stop-bit sample of that frame, the tenth, has not yet
\* occurred.  Stated where the timer core is not between a callback's return
\* and its own bookkeeping and the receiver is not torn down, it fails when
\* the first sample of a frame is 1: the callback returns HRTIMER_NORESTART
\* and no stop-bit sample is ever taken.
C12_AsStated ==
    (rx_timer # "returned" /\ rx_down = "up")
        => (HrtimerActive(rx_timer) <=> (rx_frames > 0 /\ Len(rx_samples) < 10))

\* C12, amended: until unart_rx_cleanup cancels it, the RX timer is armed or
\* its callback executing if and only if an edge has been accepted and the
\* sample that ends its frame (a first sample that is not a start bit, or
\* the stop-bit sample, valid or not) has not been taken; hrtimer_active()
\* stays true after that sample only until the timer core has finished with
\* the callback, and an inactive timer has no frame open.
C12_RxTimerFrameEquivalence ==
    rx_down \in {"up", "irq_off"}
        => /\ RxTimerArmed <=> (rx_frames > 0 /\ ~RxFrameEnded)
           /\ (rx_timer = "returned" /\ ~rx_restart) => RxFrameEnded
           /\ rx_timer = "inactive" => (rx_frames = 0 \/ RxFrameEnded)

\* C12 witness: the first sample after an accepted edge was 1; the callback
\* has returned, the timer is inactive and no stop-bit sample has been taken.
C12_Witness ==
    /\ rx_frames > 0
    /\ rx_samples = <<1>>
    /\ rx_timer = "inactive"
    /\ rx_bit_index = -1
    /\ rx_down = "up"


(***************************************************************************)
(* C13.  bit_index discipline.                                             *)
(***************************************************************************)

\* The steps of a frame: -1 to 0, k to k + 1 for k in 0..7, 8 to -1
BitIndexStep(old, new) ==
    \/ old = -1 /\ new = 0
    \/ old \in 0..7 /\ new = old + 1
    \/ old = 8 /\ new = -1

\* C13 (bit_index discipline): rx bit_index and tx bit_index are always in
\* -1..8; rx bit_index is changed by the RX timer callback only, by one frame
\* step; tx bit_index is changed by the TX timer callback, by one frame step,
\* or set to -1 by unart_tx_write when it loads a byte and starts the
\* inactive timer.
C13_BitIndexDiscipline ==
    [][/\ rx_bit_index \in -1..8 /\ rx_bit_index' \in -1..8
       /\ tx_bit_index \in -1..8 /\ tx_bit_index' \in -1..8
       /\ rx_bit_index' # rx_bit_index
          => /\ rx_timer = "running"
             /\ BitIndexStep(rx_bit_index, rx_bit_index')
       /\ tx_bit_index' # tx_bit_index
          => \/ /\ tx_timer = "running"
                /\ BitIndexStep(tx_bit_index, tx_bit_index')
             \/ /\ wr_pc = "locked"
                /\ tx_timer = "inactive"
                /\ tx_timer' = "enqueued"
                /\ tx_frames' = tx_frames + 1
                /\ tx_bit_index' = -1]_vars

\* C13 witness: unart_tx_write has reset tx bit_index, 0 since the engine
\* was set up, to -1 for the first byte, and the callbacks have stepped it
\* from there to 8.
C13_Witness ==
    /\ tx_frames = 1
    /\ tx_bit_index = 8
    /\ Len(tx_wire) = 9
    /\ tx_timer = "enqueued"


(***************************************************************************)
(* C14.  Mutual exclusion and lock release.                                *)
(***************************************************************************)

\* The contexts inside the locked section of the receiver
RxInside ==
    (IF rx_irq_pc = "locked" THEN 1 ELSE 0) + (IF rx_timer = "running" THEN 1 ELSE 0)

\* The contexts inside the locked section of the transmitter
TxInside ==
    (IF wr_pc = "locked" THEN 1 ELSE 0) + (IF tx_timer = "running" THEN 1 ELSE 0)

\* C14 (mutual exclusion and lock release): in each engine at most one of
\* the edge handler, the timer callback and the write path is inside the
\* locked section, the lock is held exactly while one is inside, and so it is
\* free after each of them has returned, by whichever exit.
C14_MutualExclusion ==
    /\ RxInside <= 1
    /\ TxInside <= 1
    /\ rx_lock <=> RxInside = 1
    /\ tx_lock <=> TxInside = 1

\* C14 witness: the stop-bit callback found the TX queue empty and returned
\* early; tx->lock is free and a write that has queued its bytes is about to
\* take it.
C14_Witness ==
    /\ tx_timer = "returned"
    /\ ~tx_restart
    /\ tx_wakeup_work
    /\ ~tx_lock
    /\ wr_pc = "queued"


(***************************************************************************)
(* C15.  Re-arming the timers.                                             *)
(***************************************************************************)

\* The RX callback returns HRTIMER_RESTART in this step
RxRearm == rx_timer = "running" /\ rx_timer' = "returned" /\ rx_restart'

\* The TX callback returns HRTIMER_RESTART in this step
TxRearm == tx_timer = "running" /\ tx_timer' = "returned" /\ tx_restart'

\* C15 as stated: every re-arm moves the deadline by exactly one period,
\* however late the callback ran.  It fails for a callback that starts one
\* period or more after its deadline.
C15_AsStated ==
    [][/\ RxRearm => rx_expires' = rx_expires + rx_period
       /\ TxRearm => tx_expires' = tx_expires + tx_period]_vars

\* C15, amended: a callback that starts less than one period after its
\* deadline re-arms the timer at that deadline plus exactly one period, not
\* at now plus one period.  A callback that starts one period or more late
\* re-arms it at the deadline plus the smallest number of whole periods that
\* lies after now: the new deadline is in the future, at most one period
\* ahead, and on the grid of the old one, and the slots in between are
\* skipped.
C15_DriftFreeRearm ==
    [][/\ RxRearm
          => /\ 0 - rx_expires < rx_period => rx_expires' = rx_expires + rx_period
             /\ rx_expires' > 0 /\ rx_expires' <= rx_period
             /\ (rx_expires' - rx_expires) % rx_period = 0
             /\ rx_expires' - rx_expires >= rx_period
       /\ TxRearm
          => /\ 0 - tx_expires < tx_period => tx_expires' = tx_expires + tx_period
             /\ tx_expires' > 0 /\ tx_expires' <= tx_period
             /\ (tx_expires' - tx_expires) % tx_period = 0
             /\ tx_expires' - tx_expires >= tx_period]_vars

\* C15 witness: a TX callback that started 1 ns late at a period of 2 ns has
\* re-armed the timer 1 ns ahead (its deadline plus 2 ns), not 2 ns ahead.
C15_Witness ==
    /\ tx_timer = "returned"
    /\ tx_restart
    /\ tx_period = 2
    /\ tx_expires = 1
    /\ tx_bit_index \in 1..8


(***************************************************************************)
(* C16.  Rate change during a frame.                                       *)
(***************************************************************************)

\* C16 as stated, the part on spacing: a callback of a frame in flight that
\* starts less than one period late re-arms the timer one period later, the
\* period being the one that was in effect when the frame started.  It fails
\* once set_baud_rate has run during the frame.
C16_AsStated ==
    [][/\ (RxRearm /\ 0 - rx_expires < Min(rx_period, rx_frame_period))
          => rx_expires' = rx_expires + rx_frame_period
       /\ (TxRearm /\ tx_bit_index \in 0..7
           /\ 0 - tx_expires < Min(tx_period, tx_frame_period))
          => tx_expires' = tx_expires + tx_frame_period]_vars

\* C16, amended: set_baud_rate during a frame leaves bit_index, payload, the
\* queue, the timer and its armed deadline unchanged and sets period (and
\* skew) from the new rate; the deadline already armed stands, and every
\* later re-arm of the frame in flight is spaced by the new period, the one
\* the callback reads when it re-arms.
C16_RateChangeInFlight ==
    [][/\ baud' # baud
          => /\ rx_period' = PeriodOf(baud')
             /\ tx_period' = PeriodOf(baud')
             /\ rx_skew' = SkewOf(PeriodOf(baud'), rx_skew_percent)
             /\ rx_bit_index' = rx_bit_index /\ tx_bit_index' = tx_bit_index
             /\ rx_payload' = rx_payload /\ tx_payload' = tx_payload
             /\ rx_fifo' = rx_fifo /\ tx_fifo' = tx_fifo
             /\ rx_timer' = rx_timer /\ tx_timer' = tx_timer
             /\ rx_expires' = rx_expires /\ tx_expires' = tx_expires
       /\ (RxRearm /\ 0 - rx_expires < rx_period)
          => rx_expires' = rx_expires + rx_period
       /\ (TxRearm /\ 0 - tx_expires < tx_period)
          => tx_expires' = tx_expires + tx_period]_vars

\* C16 witness: the rate was changed from a period of 2 ns to one of 4 ns
\* during a frame of the receiver, and the next sample of that frame has been
\* scheduled 4 ns after the current one.
C16_Witness ==
    /\ rx_frame_period = 2
    /\ rx_period = 4
    /\ rx_timer = "returned"
    /\ rx_restart
    /\ rx_expires = 4
    /\ rx_bit_index \in 1..8
    /\ ~RxFrameEnded


(***************************************************************************)
(* C17.  Teardown quiescence.                                              *)
(***************************************************************************)

\* C17: once unart_rx_cleanup or unart_tx_cleanup has returned, the timer of
\* that engine is inactive and none of its callbacks runs.  It holds for the
\* receiver, whose only source of a restart, the edge interrupt, is disabled
\* first.  It fails for the transmitter: an unart_tx_write that runs while
\* the cleanup does starts the timer after hrtimer_cancel(), and the cleanup
\* returns with the timer armed, either because its test of hrtimer_active()
\* came before the write's locked section or because a signal ended its
\* interruptible sleep.
C17_TeardownQuiescence ==
    /\ rx_down = "done" => rx_timer = "inactive"
    /\ tx_down = "done" => tx_timer = "inactive"


(***************************************************************************)
(* C18.  RX delivery.  The receiver alone, with the queue nearly full or   *)
(* the device being unbound, up to the release of the queue by devres, the *)
(* workqueue running a pending work item eventually and a work item that   *)
(* runs returning.                                                         *)
(***************************************************************************)
RxLiveInit == Init /\ scn \in {"rxfull", "rxdown"}

RxNext ==
    \/ RxActivate
    \/ RxShutdown
    \/ RxIrqEnter
    \/ RxIrqBody
    \/ RxTimerEnter
    \/ RxTimerSample
    \/ RxTimerReturn
    \/ RxPushWork
    \/ RxPushCallback
    \/ RxCleanupDisableIrq
    \/ RxCleanupCancel
    \/ RxCleanupReturn
    \/ Tick

RxLiveSpec ==
    RxLiveInit /\ [][RxNext]_vars /\ WF_vars(RxPushWork) /\ WF_vars(RxPushCallback)

\* The bytes put on the RX queue are those passed to the push callback, in
\* order, followed by those the running work item holds and those still
\* queued; and bytes are queued only while the work item is pending
RxDeliveryInOrder ==
    /\ rx_put = pushed \o rx_push_buf \o rx_fifo
    /\ rx_fifo # <<>> => rx_push_work

C19_SpaceAvailableNotification ==
    ~(/\ wr_pc = "idle"
      /\ wr_ret < Len(wr_buf)
      /\ ~wr_woken
      /\ ~tx_wakeup_work
      /\ tx_timer = "inactive"
      /\ tx_fifo # <<>>
      /\ tx_down = "up")


(***************************************************************************)
(* C20.  No stranded TX bytes.                                             *)
(***************************************************************************)

\* C20: once writes have stopped every accepted byte is driven onto the line
\* and the transmitter ends with an empty queue and an idle timer.  Only a
\* timer callback takes bytes from the queue, and only unart_tx_write starts
\* an inactive timer, so with no write in progress and none to come an
\* inactive timer is final: the claim requires that in every such state the
\* queue is empty and every byte loaded has had its stop bit driven.
C20_NoStrandedTxBytes ==
    (wr_pc = "idle" /\ tx_timer = "inactive" /\ tx_down = "up")
        => (tx_fifo = <<>> /\ Len(tx_sent) = tx_frames)

(***************************************************************************)
(* C21.  TX ordering.                                                      *)
(***************************************************************************)
\* The bytes taken from the TX queue so far and the bytes still queued are
\* together the bytes kfifo_in() was given, in order.
TxQueueDiscipline ==
    /\ Len(wr_queued) = tx_frames + Len(tx_fifo)
    /\ SubSeq(wr_queued, tx_frames + 1, Len(wr_queued)) = tx_fifo

\* The bytes whose stop bit has been driven are the bytes taken from the
\* queue, in order, but for the one byte being framed, which is the next.
TxSentInOrder ==
    /\ IsPrefix(tx_sent, wr_queued)
    /\ Len(tx_sent) \in {tx_frames - 1, tx_frames}
    /\ Len(tx_sent) = tx_frames - 1
       => IF tx_bit_index = -1
          THEN tx_payload = wr_queued[tx_frames]
          ELSE /\ tx_cur = wr_queued[tx_frames]
               /\ tx_wire = SubSeq(Frame(tx_cur), 1, tx_bit_index + 1)

\* The callback that drives a start bit finds the frame of the byte before
\* complete, and the callback that drives a stop bit completes a frame.
TxWholeFrames ==
    /\ (tx_timer = "running" /\ tx_timer' = "returned" /\ tx_bit_index = -1)
       => /\ Len(tx_sent) = tx_frames - 1
          /\ tx_sent # <<>> => tx_wire = Frame(tx_sent[Len(tx_sent)])
    /\ (tx_timer = "running" /\ tx_timer' = "returned" /\ tx_bit_index = 8)
       => /\ tx_wire' = Frame(tx_cur)
          /\ tx_sent' = Append(tx_sent, tx_cur)

\* C21 as stated (TX ordering): on a device that is not being unbound, the
\* bytes whose frame has been driven are a prefix of the concatenation of
\* the portions the calls of unart_tx_write reported as accepted.
C21_AsStated ==
    tx_down = "up" => IsPrefix(tx_sent, wr_accepted)

\* C21 (TX ordering): until the queue is freed, the bytes taken from the TX
\* queue and the bytes still in it are, in order, the accepted portions of
\* the calls of unart_tx_write that did not return through the diagnostic
\* short-circuit; on a device
\* that is not being unbound, the bytes whose frame has been driven are a
\* prefix of that sequence with none duplicated or skipped, the byte being
\* framed is the next one of it, and every start bit but the first is
\* driven after the complete frame (start bit, eight data bits, stop bit)
\* of the byte before.  A call that returns through the diagnostic
\* short-circuit reports its whole buffer as accepted and adds nothing.
C21_TxOrdering ==
    /\ [](tx_down # "released" => TxQueueDiscipline)
    /\ [](tx_down = "up" => TxSentInOrder)
    /\ [][tx_down' = "up" => TxWholeFrames]_vars

\* C21 witness: two calls, of <<65>> and of <<90, 165>>, have been accepted
\* whole and the three bytes have been framed in that order.
C21_Witness ==
    /\ wr_calls = 2
    /\ wr_queued = <<65, 90, 165>>
    /\ tx_sent = <<65, 90, 165>>
    /\ tx_wire = Frame(165)
    /\ tx_down = "up"

(***************************************************************************)
(* C22.  RX overflow.                                                      *)
(***************************************************************************)
\* The callback samples a valid stop bit while the RX queue is full.
RxOverflowStep ==
    /\ rx_timer = "running" /\ rx_timer' = "returned"
    /\ rx_bit_index = 8
    /\ rx_samples' = Append(rx_samples, 1)
    /\ Len(rx_fifo) = UNART_RX_FIFO_SIZE

\* The engine after a dropped byte, the timer core having finished with the
\* callback, the queue still full.
RxIdleAfterDrop ==
    /\ rx_dropped # <<>>
    /\ rx_payload = rx_dropped[Len(rx_dropped)]
    /\ rx_samples = Frame(rx_payload)
    /\ rx_timer = "inactive"

C23_NoDeferredWorkAfterTeardown ==
    /\ rx_down = "released" => (~rx_push_work /\ rx_push_pc = "idle")
    /\ tx_down = "released" => ~tx_wakeup_work

====
